---- MODULE Spec2Model ----
(***************************************************************************)
(* fix_configs.py: a batch text patcher.  It lists the entries of one      *)
(* directory, keeps the names ending in ".cs", and for each of them reads  *)
(* the text, applies four literal str.replace rules in a fixed order and   *)
(* writes the text back when it changed, printing "Fixed: <name>".         *)
(*                                                                         *)
(* Text is a sequence of one-character strings, so that str.replace,       *)
(* str.endswith and the newline translation of text-mode files are         *)
(* computed character by character as Python computes them.                *)
(***************************************************************************)
EXTENDS Naturals, Sequences, FiniteSets

(***************************************************************************)
(* Bounds of the model.                                                    *)
(***************************************************************************)
\* Longest file text explored, counted in fragments of Fragments.
MaxChunks == 3

\* Number of successive invocations of the script explored.
MaxRuns == 2

(***************************************************************************)
(* String literals of the script.                                          *)
(***************************************************************************)
\* line 19: 'GETUTCDATE()'
OldGetUtcDate ==
    <<"G","E","T","U","T","C","D","A","T","E","(",")">>

\* line 19: 'NOW()'
NewNow ==
    <<"N","O","W","(",")">>

\* line 22: 'HasColumnType("datetime")'
OldDatetime ==
    <<"H","a","s","C","o","l","u","m","n","T","y","p","e","(","\"","d","a",
      "t","e","t","i","m","e","\"",")">>

\* line 22: 'HasColumnType("timestamp with time zone")'
NewTimestampTz ==
    <<"H","a","s","C","o","l","u","m","n","T","y","p","e","(","\"","t","i",
      "m","e","s","t","a","m","p"," ","w","i","t","h"," ","t","i","m","e"," ",
      "z","o","n","e","\"",")">>

\* line 25: 'HasColumnType("NVARCHAR(MAX)")'
OldNvarcharUpper ==
    <<"H","a","s","C","o","l","u","m","n","T","y","p","e","(","\"","N","V",
      "A","R","C","H","A","R","(","M","A","X",")","\"",")">>

\* line 26: 'HasColumnType("nvarchar(max)")'
OldNvarcharLower ==
    <<"H","a","s","C","o","l","u","m","n","T","y","p","e","(","\"","n","v",
      "a","r","c","h","a","r","(","m","a","x",")","\"",")">>

\* lines 25-26: 'HasColumnType("text")'
NewText ==
    <<"H","a","s","C","o","l","u","m","n","T","y","p","e","(","\"","t","e",
      "x","t","\"",")">>

\* line 8: '.cs'
CsSuffix ==
    <<".","c","s">>

\* line 32: the literal part of f"Fixed: {filename}"
FixedPrefix ==
    <<"F","i","x","e","d",":"," ">>

\* line 34: "\nDone! All basic PostgreSQL fixes applied."
DoneMessage ==
    <<"\n","D","o","n","e","!"," ","A","l","l"," ","b","a","s","i","c"," ",
      "P","o","s","t","g","r","e","S","Q","L"," ","f","i","x","e","s"," ","a",
      "p","p","l","i","e","d",".">>

\* The four patterns, in the order the script applies them.
Patterns == <<OldGetUtcDate, OldDatetime, OldNvarcharUpper, OldNvarcharLower>>

(***************************************************************************)
(* Python's str methods and text-mode file translation.                    *)
(***************************************************************************)
\* The comparison made on lower-cased text, as a case-insensitive search
\* would make it.
UpperLetters ==
    <<"A","B","C","D","E","F","G","H","I","J","K","L","M","N","O","P","Q",
      "R","S","T","U","V","W","X","Y","Z">>

LowerLetters ==
    <<"a","b","c","d","e","f","g","h","i","j","k","l","m","n","o","p","q",
      "r","s","t","u","v","w","x","y","z">>

ToLower(c) ==
    IF \E k \in 1..Len(UpperLetters) : UpperLetters[k] = c
    THEN LowerLetters[CHOOSE k \in 1..Len(UpperLetters) : UpperLetters[k] = c]
    ELSE c

LowerText(s) == [k \in 1..Len(s) |-> ToLower(s[k])]

MatchAtIgnoringCase(s, i, old) ==
    /\ i + Len(old) - 1 <= Len(s)
    /\ ToLower(s[i]) = ToLower(old[1])
    /\ LowerText(SubSeq(s, i, i + Len(old) - 1)) = LowerText(old)

\* s[i:i+len(old)] == old, with i counted from 1.
MatchAt(s, i, old) ==
    /\ i + Len(old) - 1 <= Len(s)
    /\ s[i] = old[1]
    /\ SubSeq(s, i, i + Len(old) - 1) = old

\* Smallest element of a non-empty set of numbers.
Least(S) == CHOOSE j \in S : \A k \in S : j <= k

\* s.find(old, i): the position of the first occurrence of old in s that
\* begins at i or later, 0 when there is none.
Find(s, i, old) ==
    LET found == { j \in i..Len(s) : MatchAt(s, j, old) }
    IN  IF found = {} THEN 0 ELSE Least(found)

\* str.replace(old, new, 1): only the first occurrence is replaced.
ReplaceOnce(s, old, new) ==
    LET j == Find(s, 1, old)
    IN  IF j = 0 THEN s
        ELSE SubSeq(s, 1, j - 1) \o new \o SubSeq(s, j + Len(old), Len(s))

\* str.replace(old, new) for a non-empty old: find the next occurrence from
\* the left, copy the text before it and the replacement, and go on after the
\* occurrence, so the occurrences replaced do not overlap.
RECURSIVE ReplaceFrom(_, _, _, _)
ReplaceFrom(s, i, old, new) ==
    LET j == Find(s, i, old)
    IN  IF j = 0 THEN SubSeq(s, i, Len(s))
        ELSE SubSeq(s, i, j - 1) \o new \o ReplaceFrom(s, j + Len(old), old, new)

\* (The text is bound as a value before the scan, so that an argument given
\* as an expression is evaluated once and not once for every position.)
Replace(s, old, new) ==
    CHOOSE result \in { ReplaceFrom(text, 1, old, new) : text \in {s} } : TRUE

\* Line 19 without its assignment: str.replace returns the new string, so
\* the result of the first rule is lost.
ApplyRulesFirstDiscarded(text) ==
    LET r2 == Replace(text, OldDatetime, NewTimestampTz)
        r3 == Replace(r2, OldNvarcharUpper, NewText)
    IN  Replace(r3, OldNvarcharLower, NewText)

\* Every rule applied to the text that was read instead of the result of the
\* rule before it: only the last assignment survives.
ApplyRulesNotCumulative(text) == Replace(text, OldNvarcharLower, NewText)

\* lines 19-26: the chain of four replacements.
ApplyRules(text) ==
    LET r1 == Replace(text, OldGetUtcDate, NewNow)
        r2 == Replace(r1, OldDatetime, NewTimestampTz)
        r3 == Replace(r2, OldNvarcharUpper, NewText)
    IN  Replace(r3, OldNvarcharLower, NewText)

\* str.endswith(suffix)
EndsWith(name, suffix) ==
    /\ Len(name) >= Len(suffix)
    /\ SubSeq(name, Len(name) - Len(suffix) + 1, Len(name)) = suffix

\* open(..., 'r') with the default newline=None: "\r\n" and a lone "\r" are
\* read as "\n".
RECURSIVE ReadNewlinesFrom(_, _)
ReadNewlinesFrom(s, i) ==
    LET found == { j \in i..Len(s) : s[j] = "\r" }
    IN  IF found = {} THEN SubSeq(s, i, Len(s))
        ELSE LET j == Least(found)
                 next == IF j < Len(s) /\ s[j + 1] = "\n" THEN j + 2 ELSE j + 1
             IN  SubSeq(s, i, j - 1) \o <<"\n">> \o ReadNewlinesFrom(s, next)

ReadText(raw) ==
    CHOOSE result \in { ReadNewlinesFrom(bytes, 1) : bytes \in {raw} } : TRUE

\* open(..., 'w') with the default newline=None: every "\n" written is
\* replaced by os.linesep.
RECURSIVE WriteNewlinesFrom(_, _, _)
WriteNewlinesFrom(s, i, sep) ==
    LET found == { j \in i..Len(s) : s[j] = "\n" }
    IN  IF found = {} THEN SubSeq(s, i, Len(s))
        ELSE LET j == Least(found)
             IN  SubSeq(s, i, j - 1) \o sep \o WriteNewlinesFrom(s, j + 1, sep)

WriteText(text, sep) ==
    CHOOSE result \in { WriteNewlinesFrom(chars, 1, sep) : chars \in {text} } : TRUE

\* f"Fixed: {filename}"
FixedLine(name) == FixedPrefix \o name

(***************************************************************************)
(* The inputs explored: file names and file texts.                         *)
(***************************************************************************)
MixedCaseType ==
    <<"H","a","s","C","o","l","u","m","n","T","y","p","e","(","\"","N","V",
      "a","r","c","h","a","r","(","M","a","x",")","\"",")">>

IntType ==
    <<"H","a","s","C","o","l","u","m","n","T","y","p","e","(","\"","i","n",
      "t","\"",")">>

PieceGetUtc ==
    <<"G","E","T","U","T","C">>

PieceDateCall ==
    <<"D","A","T","E","(",")">>

PieceHasColumnTypeOpen ==
    <<"H","a","s","C","o","l","u","m","n","T","y","p","e","(","\"">>

PieceDatetimeClose ==
    <<"d","a","t","e","t","i","m","e","\"",")">>

PieceCol ==
    <<"c","o","l",".">>

PieceDefaultOpen ==
    <<".","H","a","s","D","e","f","a","u","l","t","V","a","l","u","e","S","q",
      "l","(","\"">>

PieceClose ==
    <<"\"",")">>

CrLf ==
    <<"\r","\n">>

Lf ==
    <<"\n">>

Cr ==
    <<"\r">>

NameA ==
    <<"A",".","c","s">>

NameB ==
    <<"B",".","c","s">>

NameTxt ==
    <<"C",".","t","x","t">>

NameUpperExt ==
    <<"E",".","C","S">>

NameNoDot ==
    <<"c","s">>

NameLongerExt ==
    <<"F",".","c","s","x">>

NameSubDir ==
    <<"s","u","b">>

NameDirCs ==
    <<"D",".","c","s">>

\* The fragments file texts are built from: the four patterns, pieces that
\* join into a pattern, a line ending.
Fragments ==
    { OldGetUtcDate, OldDatetime, OldNvarcharUpper, OldNvarcharLower,
      PieceGetUtc, PieceDateCall, PieceHasColumnTypeOpen, PieceDatetimeClose,
      CrLf }

RECURSIVE TextsUpTo(_)
TextsUpTo(n) ==
    IF n = 0 THEN { <<>> }
    ELSE LET shorter == TextsUpTo(n - 1)
         IN  shorter \cup { t \o f : t \in shorter, f \in Fragments }

\* A.cs of the example: col.HasColumnType("datetime").HasDefaultValueSql("GETUTCDATE()")
ExampleA ==
    PieceCol \o OldDatetime \o PieceDefaultOpen \o OldGetUtcDate \o PieceClose

\* A.cs of the example after the run.
ExampleAFixed ==
    PieceCol \o NewTimestampTz \o PieceDefaultOpen \o NewNow \o PieceClose

\* B.cs of the example: col.HasColumnType("int")
ExampleB == PieceCol \o IntType

\* Both covered cases of the NVARCHAR type, on lines ending in each of the
\* three ways text mode reads as a newline.
ExampleNvarchar ==
    OldNvarcharUpper \o CrLf \o OldNvarcharLower \o Lf \o PieceCol \o Cr

SampleTexts ==
    { ExampleA, ExampleB, PieceCol \o MixedCaseType, ExampleNvarchar }

\* What the file system gives for an entry: a regular file that can be opened
\* and decoded, one whose open fails, one whose bytes are not UTF-8, one that
\* cannot be opened for writing, or a directory.
PlainFile  == [kind |-> "file", readable |-> TRUE,  valid |-> TRUE,  writable |-> TRUE]
Unreadable == [kind |-> "file", readable |-> FALSE, valid |-> TRUE,  writable |-> TRUE]
NotUtf8    == [kind |-> "file", readable |-> TRUE,  valid |-> FALSE, writable |-> TRUE]
ReadOnly   == [kind |-> "file", readable |-> TRUE,  valid |-> TRUE,  writable |-> FALSE]
Directory  == [kind |-> "dir",  readable |-> TRUE,  valid |-> TRUE,  writable |-> TRUE]

FileModes == { PlainFile, Unreadable, NotUtf8, ReadOnly }

\* What a directory holds beside A.cs and B.cs: a file whose name does not
\* end in ".cs", with what the file system gives for it, and possibly a
\* subdirectory.
OtherEntries ==
    { [name |-> NameTxt,       mode |-> PlainFile,  subs |-> {}],
      [name |-> NameTxt,       mode |-> Unreadable, subs |-> {NameDirCs}],
      [name |-> NameUpperExt,  mode |-> Unreadable, subs |-> {NameSubDir}],
      [name |-> NameNoDot,     mode |-> NotUtf8,    subs |-> {NameDirCs}],
      [name |-> NameLongerExt, mode |-> PlainFile,  subs |-> {NameSubDir}],
      [name |-> NameLongerExt, mode |-> ReadOnly,   subs |-> {}] }

\* The texts of B.cs explored beside those of A.cs.
SampleTextsB == { ExampleB, ExampleNvarchar }

\* os.linesep of the platform the script runs on.
LineSeps == { Lf, CrLf }

\* The orders in which os.listdir may yield the entries S.
Listings(S) ==
    { l \in [1..Cardinality(S) -> S] : \A i, j \in 1..Cardinality(S) : l[i] = l[j] => i = j }

(***************************************************************************)
(* State.                                                                  *)
(***************************************************************************)
VARIABLES
    dirExists,        \* config_dir exists and is a directory
    fs,               \* entry name -> what the file system gives for it
    disk,             \* entry name -> characters stored in the file
    linesep,          \* os.linesep
    pc,               \* position of the script
    run,              \* number of the current invocation
    cs_files,         \* line 8
    idx,              \* position of the for loop in cs_files
    filename,         \* line 10
    content,          \* lines 14-26
    original_content, \* line 16
    handles,          \* names of the files currently open
    stdout,           \* what the print calls of this invocation wrote, in order
    reads,            \* name -> number of f.read() calls of this invocation
    writes,           \* name -> number of f.write() calls of this invocation
    opened,           \* names passed to open() in this invocation
    raised,           \* the exception that ended this invocation, or "none"
    disk0,            \* disk when this invocation started
    hist              \* the earlier invocations: how each ended

vars ==
    << dirExists, fs, disk, linesep, pc, run, cs_files, idx, filename, content,
       original_content, handles, stdout, reads, writes, opened, raised, disk0,
       hist >>

env == << dirExists, fs, linesep >>

Names == DOMAIN fs

\* line 8: f.endswith('.cs')
IsCandidate(f) == EndsWith(f, CsSuffix)

Candidates == { f \in Names : IsCandidate(f) }

\* State of a process that has not run a line yet.
Fresh ==
    /\ pc = "list"
    /\ cs_files = <<>>
    /\ idx = 0
    /\ filename = <<>>
    /\ content = <<>>
    /\ original_content = <<>>
    /\ handles = {}
    /\ stdout = <<>>
    /\ opened = {}
    /\ raised = "none"
    /\ reads = [f \in Names |-> 0]
    /\ writes = [f \in Names |-> 0]

\* One file A.cs with any text of at most MaxChunks fragments.
InitText ==
    /\ dirExists = TRUE
    /\ fs = [f \in {NameA} |-> PlainFile]
    /\ \E t \in TextsUpTo(MaxChunks) : disk = [f \in {NameA} |-> t]
    /\ linesep \in LineSeps

\* A directory with A.cs, B.cs, an entry of another name and possibly a
\* subdirectory, each .cs file in any mode; or no directory at all.
InitDir ==
    \/ /\ dirExists = FALSE
       /\ fs = [f \in {} |-> PlainFile]
       /\ disk = [f \in {} |-> <<>>]
       /\ linesep = Lf
    \/ /\ dirExists = TRUE
       /\ \E ma, mb \in FileModes, other \in OtherEntries :
            fs = [f \in {NameA, NameB, other.name} \cup other.subs |->
                    IF f = NameA THEN ma
                    ELSE IF f = NameB THEN mb
                    ELSE IF f = other.name THEN other.mode
                    ELSE Directory]
       /\ \E ta \in SampleTexts, tb \in SampleTextsB :
            disk = [f \in DOMAIN fs |->
                      IF f = NameA THEN ta
                      ELSE IF f = NameB THEN tb
                      ELSE IF fs[f].kind = "file" THEN OldGetUtcDate \o OldDatetime
                      ELSE <<>>]
       /\ linesep \in LineSeps

\* The first invocation is about to start.
Start ==
    /\ run = 1
    /\ Fresh
    /\ disk0 = disk
    /\ hist = <<>>

Init == (InitText \/ InitDir) /\ Start

\* The directories alone.
InitDirOnly == InitDir /\ Start

(***************************************************************************)
(* The script, one action per step.                                        *)
(***************************************************************************)
\* An unhandled exception: the traceback goes to stderr and the process ends.
Abort(exception) ==
    /\ raised' = exception
    /\ pc' = "aborted"
    /\ handles' = {}

\* line 8, os.listdir raises: config_dir is missing or not a directory.
ListDirFails ==
    /\ pc = "list"
    /\ ~dirExists
    /\ Abort("FileNotFoundError")
    /\ UNCHANGED << env, disk, run, cs_files, idx, filename, content,
                    original_content, stdout, reads, writes, opened, disk0, hist >>

\* line 8: the names ending in '.cs', in the order os.listdir yields them.
ListDir ==
    /\ pc = "list"
    /\ dirExists
    /\ \E listing \in Listings(Names) :
         cs_files' = SelectSeq(listing, IsCandidate)
    /\ pc' = "loop"
    /\ UNCHANGED << env, raised, disk, run, idx, filename, content, original_content,
                    handles, stdout, reads, writes, opened, disk0, hist >>

\* lines 10-11: the for loop takes the next name; filepath is that name
\* inside config_dir.
ForNext ==
    /\ pc = "loop"
    /\ idx < Len(cs_files)
    /\ idx' = idx + 1
    /\ filename' = cs_files[idx + 1]
    /\ pc' = "open_r"
    /\ UNCHANGED << env, raised, disk, run, cs_files, content, original_content, handles,
                    stdout, reads, writes, opened, disk0, hist >>

\* The open of line 13 wrapped in try/except with continue: the file is
\* skipped and the loop goes on.
OpenReadFailsSkipped ==
    /\ pc = "open_r"
    /\ fs[filename].kind = "dir" \/ ~fs[filename].readable
    /\ opened' = opened \cup {filename}
    /\ raised' = IF fs[filename].kind = "dir" THEN "IsADirectoryError" ELSE "PermissionError"
    /\ pc' = "loop"
    /\ UNCHANGED << env, disk, run, cs_files, idx, filename, content,
                    original_content, handles, stdout, reads, writes, disk0, hist >>

\* line 13, open(filepath, 'r') raises: no permission, or a directory.
OpenReadFails ==
    /\ pc = "open_r"
    /\ fs[filename].kind = "dir" \/ ~fs[filename].readable
    /\ opened' = opened \cup {filename}
    /\ Abort(IF fs[filename].kind = "dir" THEN "IsADirectoryError" ELSE "PermissionError")
    /\ UNCHANGED << env, disk, run, cs_files, idx, filename, content,
                    original_content, stdout, reads, writes, disk0, hist >>

\* line 13: open(filepath, 'r', encoding='utf-8')
OpenRead ==
    /\ pc = "open_r"
    /\ fs[filename].kind = "file" /\ fs[filename].readable
    /\ opened' = opened \cup {filename}
    /\ handles' = handles \cup {filename}
    /\ pc' = "read"
    /\ UNCHANGED << env, raised, disk, run, cs_files, idx, filename, content,
                    original_content, stdout, reads, writes, disk0, hist >>

\* line 14, f.read() raises UnicodeDecodeError; the with block closes f.
ReadFails ==
    /\ pc = "read"
    /\ ~fs[filename].valid
    /\ reads' = [reads EXCEPT ![filename] = @ + 1]
    /\ Abort("UnicodeDecodeError")
    /\ UNCHANGED << env, disk, run, cs_files, idx, filename, content,
                    original_content, stdout, writes, opened, disk0, hist >>

\* line 14: content = f.read(), then the with block closes f.
Read ==
    /\ pc = "read"
    /\ fs[filename].valid
    /\ content' = ReadText(disk[filename])
    /\ reads' = [reads EXCEPT ![filename] = @ + 1]
    /\ handles' = handles \ {filename}
    /\ pc' = "rules"
    /\ UNCHANGED << env, raised, disk, run, cs_files, idx, filename, original_content,
                    stdout, writes, opened, disk0, hist >>

\* Line 16 run for the first file only, as if the assignment stood before the
\* loop: later files are compared with the text of the first.
RulesKeepFirstOriginal ==
    /\ pc = "rules"
    /\ original_content' = IF idx = 1 THEN content ELSE original_content
    /\ content' = ApplyRules(content)
    /\ pc' = "compare"
    /\ UNCHANGED << env, raised, disk, run, cs_files, idx, filename, handles, stdout,
                    reads, writes, opened, disk0, hist >>

\* lines 16-26: keep the text read, then apply the four rules.
Rules ==
    /\ pc = "rules"
    /\ original_content' = content
    /\ content' = ApplyRules(content)
    /\ pc' = "compare"
    /\ UNCHANGED << env, raised, disk, run, cs_files, idx, filename, handles, stdout,
                    reads, writes, opened, disk0, hist >>

\* The comparison of line 29 left out: every file read is written back.
ChangedAlways(new, old) == TRUE

\* line 29: if content != original_content
Changed(new, old) == new # old

Compare ==
    /\ pc = "compare"
    /\ pc' = IF Changed(content, original_content) THEN "open_w" ELSE "loop"
    /\ UNCHANGED << env, raised, disk, run, cs_files, idx, filename, content,
                    original_content, handles, stdout, reads, writes, opened,
                    disk0, hist >>

\* line 30, open(filepath, 'w') raises: no permission.  Nothing is truncated.
OpenWriteFails ==
    /\ pc = "open_w"
    /\ ~fs[filename].writable
    /\ opened' = opened \cup {filename}
    /\ Abort("PermissionError")
    /\ UNCHANGED << env, disk, run, cs_files, idx, filename, content,
                    original_content, stdout, reads, writes, disk0, hist >>

\* line 30: open(filepath, 'w', encoding='utf-8') truncates the file.
OpenWrite ==
    /\ pc = "open_w"
    /\ fs[filename].writable
    /\ opened' = opened \cup {filename}
    /\ handles' = handles \cup {filename}
    /\ disk' = [disk EXCEPT ![filename] = <<>>]
    /\ pc' = "write"
    /\ UNCHANGED << env, raised, run, cs_files, idx, filename, content, original_content,
                    stdout, reads, writes, disk0, hist >>

\* Line 31 writing the wrong variable: f.write(original_content).
WriteOriginal ==
    /\ pc = "write"
    /\ disk' = [disk EXCEPT ![filename] = WriteText(original_content, linesep)]
    /\ writes' = [writes EXCEPT ![filename] = @ + 1]
    /\ handles' = handles \ {filename}
    /\ pc' = "print"
    /\ UNCHANGED << env, raised, run, cs_files, idx, filename, content,
                    original_content, stdout, reads, opened, disk0, hist >>

\* line 31: f.write(content), then the with block closes f.
Write ==
    /\ pc = "write"
    /\ disk' = [disk EXCEPT ![filename] = WriteText(content, linesep)]
    /\ writes' = [writes EXCEPT ![filename] = @ + 1]
    /\ handles' = handles \ {filename}
    /\ pc' = "print"
    /\ UNCHANGED << env, raised, run, cs_files, idx, filename, content, original_content,
                    stdout, reads, opened, disk0, hist >>

\* line 32: print(f"Fixed: {filename}")
PrintFixed ==
    /\ pc = "print"
    /\ stdout' = Append(stdout, FixedLine(filename))
    /\ pc' = "loop"
    /\ UNCHANGED << env, raised, disk, run, cs_files, idx, filename, content,
                    original_content, handles, reads, writes, opened, disk0, hist >>

\* The loop running over cs_files[:-1]: the completion message is printed
\* with the last candidate still to come.
PrintDoneOneShort ==
    /\ pc = "loop"
    /\ idx + 1 >= Len(cs_files)
    /\ stdout' = Append(stdout, DoneMessage)
    /\ pc' = "done"
    /\ UNCHANGED << env, raised, disk, run, cs_files, idx, filename, content,
                    original_content, handles, reads, writes, opened, disk0, hist >>

\* line 34: the loop is exhausted; print the completion message and exit 0.
PrintDone ==
    /\ pc = "loop"
    /\ idx = Len(cs_files)
    /\ stdout' = Append(stdout, DoneMessage)
    /\ pc' = "done"
    /\ UNCHANGED << env, raised, disk, run, cs_files, idx, filename, content,
                    original_content, handles, reads, writes, opened, disk0, hist >>

\* The script is started again on the same directory: a new process, with
\* nothing kept from the one before.
Rerun ==
    /\ pc \in {"done", "aborted"}
    /\ run < MaxRuns
    /\ run' = run + 1
    /\ hist' = Append(hist, [pc |-> pc, disk |-> disk, stdout |-> stdout, before |-> disk0])
    /\ disk0' = disk
    /\ pc' = "list"
    /\ cs_files' = <<>>
    /\ idx' = 0
    /\ filename' = <<>>
    /\ content' = <<>>
    /\ original_content' = <<>>
    /\ handles' = {}
    /\ stdout' = <<>>
    /\ opened' = {}
    /\ raised' = "none"
    /\ reads' = [f \in Names |-> 0]
    /\ writes' = [f \in Names |-> 0]
    /\ UNCHANGED << env, disk >>

\* Lines 10-32 as a function of the order of cs_files: the disk and the set
\* of names reported when the loop ends or an exception ends it, starting
\* from disk d with the names in fixed already reported.
RECURSIVE RunOrder(_, _, _)
RunOrder(order, d, fixed) ==
    IF Len(order) = 0 THEN [disk |-> d, fixed |-> fixed]
    ELSE LET f == Head(order)
             text == ReadText(d[f])
             new == ApplyRules(text)
         IN  IF fs[f].kind = "dir" \/ ~fs[f].readable \/ ~fs[f].valid
             THEN [disk |-> d, fixed |-> fixed]
             ELSE IF ~Changed(new, text)
             THEN RunOrder(Tail(order), d, fixed)
             ELSE IF ~fs[f].writable
             THEN [disk |-> d, fixed |-> fixed]
             ELSE RunOrder(Tail(order), [d EXCEPT ![f] = WriteText(new, linesep)],
                           fixed \cup {f})

\* The steps of one invocation.
Step ==
    \/ ListDirFails
    \/ ListDir
    \/ ForNext
    \/ OpenReadFails
    \/ OpenRead
    \/ ReadFails
    \/ Read
    \/ Rules
    \/ Compare
    \/ OpenWriteFails
    \/ OpenWrite
    \/ Write
    \/ PrintFixed
    \/ PrintDone

Next == Step \/ Rerun

Spec == Init /\ [][Next]_vars

\* The script is sequential and never waits: a process that can take a step
\* takes it.  Nothing makes anyone start the script again.
FairSpec == InitDirOnly /\ [][Next]_vars /\ WF_vars(Step)

(***************************************************************************)
(* Vocabulary of the properties.                                           *)
(***************************************************************************)
\* The characters of s from position i on begin with old.
At(s, i, old) ==
    /\ i + Len(old) - 1 <= Len(s)
    /\ \A k \in 1..Len(old) : s[i + k - 1] = old[k]

Occurs(s, old) == \E i \in 1..Len(s) : At(s, i, old)

Count(s, old) == Cardinality({ i \in 1..Len(s) : At(s, i, old) })

HasPattern(s) == \E k \in 1..Len(Patterns) : Occurs(s, Patterns[k])

\* The names in the "Fixed:" lines printed so far by this invocation.
Reported == { f \in Names : \E k \in 1..Len(stdout) : stdout[k] = FixedLine(f) }

DonePrinted == Cardinality({ k \in 1..Len(stdout) : stdout[k] = DoneMessage })

\* The script is between two files, or has ended.
AtBoundary == pc \in {"loop", "done", "aborted"}

\* The candidates whose loop body has run to its end in this invocation.
Finished ==
    { cs_files[k] : k \in 1..(IF pc \in {"loop", "done"} THEN idx ELSE idx - 1) }

\* The file whose loop body has just run to its end.
JustFinished == IF pc = "loop" /\ idx > 0 THEN {cs_files[idx]} ELSE {}

\* Position of the first occurrence of old in s, 0 when there is none.
FirstMatch(s, old) ==
    LET found == { i \in 1..Len(s) : At(s, i, old) }
    IN  IF found = {} THEN 0 ELSE CHOOSE i \in found : \A j \in found : i <= j

BeforeMatch(s, i) == SubSeq(s, 1, i - 1)

AfterMatch(s, i, old) == SubSeq(s, i + Len(old), Len(s))

\* What a run leaves on disk for a file it rewrites.
Rewritten(raw) == WriteText(ApplyRules(ReadText(raw)), linesep)

(***************************************************************************)
(* Properties.                                                             *)
(***************************************************************************)
\* C2: a candidate file whose text holds none of the four patterns is never
\* written by a run, keeps its content on disk, and gets no "Fixed:" line.
\* (Stated by contraposition: a file that is open for writing, written,
\* changed on disk or reported held a pattern when the run started.)
C2_NoPatternUntouched ==
    \A f \in Candidates :
        \/ /\ writes[f] = 0
           /\ disk[f] = disk0[f]
           /\ f \notin Reported
           /\ ~(pc \in {"open_w", "write"} /\ filename = f)
        \/ HasPattern(disk0[f])

\* A run has ended normally in which a file without any pattern was read and
\* left alone while another file was rewritten.
C2_Witness ==
    /\ pc = "done"
    /\ \E f \in Candidates :
         /\ ~HasPattern(disk0[f])
         /\ disk0[f] # <<>>
         /\ reads[f] = 1
         /\ disk[f] = disk0[f]
    /\ Reported # {}


\* The rules after the first one (lines 22-26).
RestRules(text) ==
    LET r2 == Replace(text, OldDatetime, NewTimestampTz)
        r3 == Replace(r2, OldNvarcharUpper, NewText)
    IN  Replace(r3, OldNvarcharLower, NewText)

\* C3 as stated: a file holding exactly one GETUTCDATE() has it replaced by
\* NOW() and all its other text is left as it was.  The text of a file is
\* taken here as what reading it in text mode gives, so that how line endings
\* are stored is not at stake.
C3_AllOtherTextUnchanged ==
    \A f \in JustFinished :
        LET was == ReadText(disk0[f])
            is == ReadText(disk[f])
        IN  Count(was, OldGetUtcDate) = 1 =>
                LET i == FirstMatch(was, OldGetUtcDate)
                IN  is = BeforeMatch(was, i) \o NewNow
                           \o AfterMatch(was, i, OldGetUtcDate)

\* C3, amended: a file holding exactly one GETUTCDATE() has it replaced by
\* NOW(); the text before it and the text after it are changed only by the
\* other three rules and by the newline translation of reading and writing
\* the file in text mode.
C3_OnlyOtherRulesAndNewlines ==
    \A f \in JustFinished :
        Count(disk0[f], OldGetUtcDate) = 1 =>
            LET i == FirstMatch(disk0[f], OldGetUtcDate)
                before == ReadText(BeforeMatch(disk0[f], i))
                after == ReadText(AfterMatch(disk0[f], i, OldGetUtcDate))
            IN  disk[f] = WriteText(RestRules(before) \o NewNow \o RestRules(after),
                                    linesep)

\* A file with one GETUTCDATE() between other text, a datetime column among
\* it, has just been rewritten.
C3_Witness ==
    \E f \in JustFinished :
        /\ Count(disk0[f], OldGetUtcDate) = 1
        /\ FirstMatch(disk0[f], OldGetUtcDate) > 1
        /\ Occurs(disk0[f], OldDatetime)
        /\ writes[f] = 1
        /\ Occurs(disk[f], NewNow)


\* The rules as a list of (pattern, replacement) pairs, in the stated order.
RuleList ==
    << [old |-> OldGetUtcDate,    new |-> NewNow],
       [old |-> OldDatetime,      new |-> NewTimestampTz],
       [old |-> OldNvarcharUpper, new |-> NewText],
       [old |-> OldNvarcharLower, new |-> NewText] >>

\* The occurrences of old in s taken from left to right without overlap,
\* from position i on: the first one, then those after its end.
RECURSIVE Taken(_, _, _)
Taken(s, i, old) ==
    LET found == { j \in i..Len(s) : At(s, j, old) }
    IN  IF found = {} THEN {}
        ELSE LET j == CHOOSE j \in found : \A k \in found : j <= k
             IN  {j} \cup Taken(s, j + Len(old), old)

\* The sequences parts[lo], ..., parts[hi] joined.
RECURSIVE Join(_, _, _)
Join(parts, lo, hi) ==
    IF lo > hi THEN <<>>
    ELSE IF lo = hi THEN parts[lo]
    ELSE LET mid == (lo + hi) \div 2
         IN  Join(parts, lo, mid) \o Join(parts, mid + 1, hi)

\* Replacing every non-overlapping occurrence, left to right: each character
\* stays, except that the first character of a taken occurrence becomes the
\* replacement and its other characters go.
ReplaceEvery(s, old, new) ==
    LET taken == Taken(s, 1, old)
        parts == [i \in 1..Len(s) |->
                    IF i \in taken THEN new
                    ELSE IF \E j \in taken : j < i /\ i < j + Len(old) THEN <<>>
                    ELSE <<s[i]>>]
    IN  Join(parts, 1, Len(s))

\* The rules from the k-th on, each applied to the result of the one before.
RECURSIVE FoldRules(_, _, _)
FoldRules(text, rules, k) ==
    IF k > Len(rules) THEN text
    ELSE FoldRules(ReplaceEvery(text, rules[k].old, rules[k].new), rules, k + 1)

\* C5: the text after lines 19-26 is the fold of the four rules, in the order
\* GETUTCDATE(), datetime, NVARCHAR(MAX), nvarchar(max), over the text read,
\* each rule replacing every non-overlapping occurrence of its pattern from
\* left to right in the result of the rule before it.
C5_SequentialFold ==
    pc = "compare" => content = FoldRules(original_content, RuleList, 1)

\* The rules have just run on a text holding occurrences of at least two of
\* the patterns, one of them twice, and have changed it.
C5_Witness ==
    /\ pc = "compare"
    /\ Count(original_content, OldGetUtcDate) >= 2
    /\ Occurs(original_content, OldNvarcharLower)
    /\ content # original_content
    /\ ~HasPattern(content)


\* C6: matching is exact in case.  Every HasColumnType("NVARCHAR(MAX)") and
\* every HasColumnType("nvarchar(max)") of a file ends as
\* HasColumnType("text") in its place, the text around it being what the
\* rules make of it; a file that holds the type in another case,
\* HasColumnType("NVarchar(Max)"), and no pattern is left as it was and is
\* not reported.
C6_ExactCase ==
    \A f \in JustFinished :
        LET t == ReadText(disk0[f])
        IN  /\ \A i \in 1..Len(t) :
                 At(t, i, OldNvarcharUpper) \/ At(t, i, OldNvarcharLower) =>
                     disk[f] = WriteText(ApplyRules(BeforeMatch(t, i)) \o NewText
                                           \o ApplyRules(AfterMatch(t, i, OldNvarcharUpper)),
                                         linesep)
            /\ Occurs(t, MixedCaseType) /\ ~HasPattern(t) =>
                 /\ disk[f] = disk0[f]
                 /\ writes[f] = 0
                 /\ f \notin Reported

\* A run has ended in which one file held the type in both covered cases and
\* now holds HasColumnType("text") twice, and another held it in mixed case
\* and was left alone.
C6_Witness ==
    /\ pc = "done"
    /\ \E f, g \in Finished :
         /\ Occurs(disk0[f], OldNvarcharUpper)
         /\ Occurs(disk0[f], OldNvarcharLower)
         /\ Count(disk[f], NewText) = 2
         /\ f \in Reported
         /\ Occurs(disk0[g], MixedCaseType)
         /\ disk[g] = disk0[g]
         /\ g \notin Reported


\* C4: a file is overwritten and reported exactly when its text after the
\* four rules differs from the text read.  No file is read or written more
\* than once in a run; between two files and at the end the files reported
\* are the files written and the files whose content on disk changed, one
\* line each; a file the loop has finished with was read once, is reported
\* iff the rules changed its text, and then holds the transformed text.  In
\* the example, A.cs is rewritten and reported and B.cs is neither.
C4_WrittenIffChanged ==
    /\ \A f \in Names : reads[f] <= 1 /\ writes[f] <= 1
    /\ AtBoundary =>
         /\ Reported = { f \in Names : disk[f] # disk0[f] }
         /\ Reported = { f \in Names : writes[f] = 1 }
         /\ Len(stdout) = Cardinality(Reported) + DonePrinted
    /\ \A f \in (IF pc \in {"done", "aborted"} THEN Finished ELSE JustFinished) :
         /\ reads[f] = 1
         /\ f \in Reported <=> ApplyRules(ReadText(disk0[f])) # ReadText(disk0[f])
         /\ f \in Reported => disk[f] = Rewritten(disk0[f])
    /\ pc = "done" /\ Candidates = {NameA, NameB}
          /\ disk0[NameA] = ExampleA /\ disk0[NameB] = ExampleB =>
         /\ disk[NameA] = ExampleAFixed
         /\ disk[NameB] = ExampleB
         /\ stdout = <<FixedLine(NameA), DoneMessage>>

\* The run of the example has ended: A.cs rewritten and reported, B.cs not.
C4_Witness ==
    /\ pc = "done"
    /\ Candidates = {NameA, NameB}
    /\ disk0[NameA] = ExampleA
    /\ disk0[NameB] = ExampleB
    /\ disk[NameA] = ExampleAFixed
    /\ Reported = {NameA}


\* C1: a run is idempotent.  After a run that ended normally no candidate
\* file holds any of the four patterns; a second run started after it writes
\* nothing, leaves every file with the content the first run left, and prints
\* the completion message alone.
C1_Idempotent ==
    /\ pc = "done" => \A f \in Candidates : ~HasPattern(disk[f])
    /\ run > 1 /\ hist[run - 1].pc = "done" =>
         /\ disk = hist[run - 1].disk
         /\ \A f \in Names : writes[f] = 0
         /\ Reported = {}
         /\ pc = "done" => stdout = <<DoneMessage>>

\* A second run has ended after a first run that rewrote a file in which
\* pieces of patterns stood around a whole pattern.
C1_Witness ==
    /\ pc = "done"
    /\ run = 2
    /\ hist[1].pc = "done"
    /\ \E f \in Candidates :
         /\ hist[1].before[f] = PieceGetUtc \o OldGetUtcDate \o PieceDateCall
         /\ hist[1].disk[f] = PieceGetUtc \o NewNow \o PieceDateCall
         /\ reads[f] = 1


\* C7: an I/O error ends the run where it happens, with no retry and no
\* recovery.  Once an exception is raised the process has ended and runs no
\* further step, no file is open, and the completion message is not printed;
\* the files finished before keep their lines and their content (rewritten
\* if the rules changed it); the file at which the error happened is not
\* written and not reported; and no candidate after it is opened, read or
\* written.  The process aborts only by an exception.
C7_AbortAtFirstError ==
    /\ pc = "aborted" => raised # "none"
    /\ raised # "none" =>
         /\ pc = "aborted"
         /\ ~ENABLED Step
         /\ handles = {}
         /\ DonePrinted = 0
         /\ idx = 0 <=> ~dirExists
         /\ \A f \in Finished :
              /\ reads[f] = 1
              /\ f \in Reported <=> ApplyRules(ReadText(disk0[f])) # ReadText(disk0[f])
              /\ disk[f] = IF f \in Reported THEN Rewritten(disk0[f]) ELSE disk0[f]
         /\ idx > 0 =>
              /\ reads[cs_files[idx]] <= 1
              /\ writes[cs_files[idx]] = 0
              /\ disk[cs_files[idx]] = disk0[cs_files[idx]]
              /\ cs_files[idx] \notin Reported
         /\ \A k \in (idx + 1)..Len(cs_files) :
              /\ cs_files[k] \notin opened
              /\ reads[cs_files[k]] = 0
              /\ writes[cs_files[k]] = 0
              /\ disk[cs_files[k]] = disk0[cs_files[k]]

\* A run was aborted at the second of three candidates, after the first was
\* rewritten and reported and before the third, which holds a pattern.
C7_Witness ==
    /\ pc = "aborted"
    /\ Len(cs_files) = 3
    /\ idx = 2
    /\ cs_files[1] \in Reported
    /\ disk[cs_files[1]] # disk0[cs_files[1]]
    /\ HasPattern(disk[cs_files[3]])
    /\ fs[cs_files[3]].kind = "file"


\* C8: only entries whose name ends with ".cs" are ever opened; an entry of
\* any other name, and a subdirectory, is ignored: never opened, read or
\* written, and never the entry at which a run fails.
C8_OthersAndSubdirectoriesIgnored ==
    /\ \A f \in opened : EndsWith(f, CsSuffix)
    /\ \A f \in Names :
         ~EndsWith(f, CsSuffix) \/ fs[f].kind = "dir" =>
             /\ f \notin opened
             /\ reads[f] = 0
             /\ writes[f] = 0
             /\ disk[f] = disk0[f]
             /\ ~(pc = "aborted" /\ idx > 0 /\ cs_files[idx] = f)

\* The part of C8 the code keeps: an entry whose name does not end with
\* ".cs" is never opened, read or written, whatever it is.
C8_OtherNamesIgnored ==
    /\ \A f \in opened : EndsWith(f, CsSuffix)
    /\ \A f \in Names :
         ~EndsWith(f, CsSuffix) =>
             /\ f \notin opened
             /\ reads[f] = 0
             /\ writes[f] = 0
             /\ disk[f] = disk0[f]
             /\ \A k \in 1..Len(cs_files) : cs_files[k] # f


\* C9: a run with no I/O error terminates and prints the completion message
\* exactly once, as its last line, after every candidate of the listing has
\* been read and after every "Fixed:" line; at most one file is open at any
\* time, it is the current file, and it is closed before the loop goes on to
\* the next file.
C9_CompletesOnce ==
    /\ [](pc = "done" =>
            /\ raised = "none"
            /\ idx = Len(cs_files)
            /\ Finished = Candidates
            /\ \A f \in Candidates : reads[f] = 1
            /\ DonePrinted = 1
            /\ stdout[Len(stdout)] = DoneMessage
            /\ Len(stdout) = Cardinality(Reported) + 1)
    /\ [](DonePrinted > 0 => pc = "done")
    /\ []( /\ handles \subseteq {filename}
           /\ pc \in {"list", "loop", "open_r", "rules", "compare", "open_w", "print",
                      "done", "aborted"} => handles = {})
    /\ [](pc = "list" => <>(pc = "done" \/ raised # "none"))

\* A run over two candidates has ended with both rewritten: two "Fixed:"
\* lines, then the completion message.
C9_Witness ==
    /\ pc = "done"
    /\ Len(cs_files) = 2
    /\ stdout = <<FixedLine(cs_files[1]), FixedLine(cs_files[2]), DoneMessage>>


\* C10 as stated: whatever the order of the listing, a run ends with the same
\* content in every file and the same set of reported files; that is, the
\* outcome of this run is the outcome of a run in any other order.  Stated
\* for the directories whose candidates are all regular files.
C10_OrderNeverMatters ==
    /\ pc \in {"done", "aborted"}
    /\ dirExists
    /\ \A f \in Candidates : fs[f].kind = "file"
    => \A order \in Listings(Candidates) :
           RunOrder(order, disk0, {}) = [disk |-> disk, fixed |-> Reported]

\* C10, amended: in a run with no I/O error the order of the listing changes
\* only the order of the "Fixed:" lines; the content of every file and the
\* set of reported files are those of a run in any other order.  (A run that
\* an I/O error ends has the outcome of its own order, which is why another
\* order may differ from it.)
C10_OrderMattersOnlyOnError ==
    /\ pc = "done" =>
         \A order \in Listings(Candidates) :
             RunOrder(order, disk0, {}) = [disk |-> disk, fixed |-> Reported]
    /\ pc = "aborted" /\ dirExists =>
         RunOrder(cs_files, disk0, {}) = [disk |-> disk, fixed |-> Reported]

\* A run over two candidates has ended normally with the second one rewritten
\* and the first one not: in the other order the line would come first.
C10_Witness ==
    /\ pc = "done"
    /\ Len(cs_files) = 2
    /\ Reported = {cs_files[2]}
    /\ HasPattern(disk0[cs_files[2]])
    /\ disk0[cs_files[1]] # <<>>

====
